---- MODULE Spec2Model ----
(***************************************************************************)
(* Model of the Leptos tutorial application of src/src/main.rs: the App    *)
(* component with its two signals (count, x), the derived closure          *)
(* double_count, the reactive and static bindings declared in the view,    *)
(* and the two click handlers.                                             *)
(*                                                                         *)
(* The DOM is a function from facet names to strings.  A click is queued   *)
(* by the user, dequeued by the event loop when no handler is running,     *)
(* and its handler then stores the new signal value and re-runs, one by    *)
(* one and in subscription order, the bindings subscribed to that signal.  *)
(***************************************************************************)
EXTENDS Integers, Sequences, FiniteSets, TLC

VARIABLES pc, cur, idx, queue, sig, dom, subs, writes, writers,
          issued, handled, pre, notified

vars == <<pc, cur, idx, queue, sig, dom, subs, writes, writers,
          issued, handled, pre, notified>>

(***************************************************************************)
(* Bounds of the exploration.                                              *)
(***************************************************************************)
MaxCountClicks == 26
MaxMoveClicks == 3
MaxQueue == 2

(***************************************************************************)
(* Values fixed by the source.                                             *)
(***************************************************************************)
CountInit == 0
XInit == 0
CountStep == 1
XStep == 10
LeftOffset == 100
Green == 100

html == "<p>This HTML will be injected.</p>"

Absent == "<absent>"

(***************************************************************************)
(* Rust integer helpers: `%` truncates towards zero, and Display prints    *)
(* an i32 in decimal with a leading minus sign when negative.              *)
(***************************************************************************)
Rem(a, b) == IF a >= 0 THEN a % b ELSE -((-a) % b)

Digit(d) ==
    CASE d = 0 -> "0" [] d = 1 -> "1" [] d = 2 -> "2" [] d = 3 -> "3"
      [] d = 4 -> "4" [] d = 5 -> "5" [] d = 6 -> "6" [] d = 7 -> "7"
      [] d = 8 -> "8" [] d = 9 -> "9"

RECURSIVE NatToStr(_)
NatToStr(n) == IF n < 10 THEN Digit(n) ELSE NatToStr(n \div 10) \o Digit(n % 10)

ToStr(n) == IF n < 0 THEN "-" \o NatToStr(-n) ELSE NatToStr(n)

(***************************************************************************)
(* The closures of App.                                                    *)
(***************************************************************************)
double_count_plus(c) == c + 2

double_count_once(c) == CountInit * 2

double_count(c) == c * 2

class_red_even(c) == Rem(c, 2) = 0

class_red(c) == Rem(c, 2) = 1

count_text(c) == ToStr(c)

style_left(xv) == ToStr(xv + LeftOffset) \o "px"

style_background_color(xv) ==
    "rgb(" \o ToStr(xv) \o ", " \o ToStr(Green) \o ", 100)"

columns(xv) == ToStr(xv)

progress_value_count(c) == ToStr(c)

progress_value(c) == ToStr(double_count(c))

double_text(c) == ToStr(double_count(c))

(***************************************************************************)
(* Markup: the escaping a text child gets, and the child nodes the browser *)
(* builds from a string assigned to innerHTML (elements with text content, *)
(* and bare text).                                                         *)
(***************************************************************************)
RECURSIVE EscapeHtml(_)
EscapeHtml(s) ==
    IF Len(s) = 0 THEN ""
    ELSE LET c == SubSeq(s, 1, 1)
             e == CASE c = "<" -> "&lt;"
                    [] c = ">" -> "&gt;"
                    [] c = "&" -> "&amp;"
                    [] OTHER -> c
         IN  e \o EscapeHtml(SubSeq(s, 2, Len(s)))

RECURSIVE Find(_, _, _)
Find(s, c, i) ==
    IF i > Len(s) THEN 0
    ELSE IF SubSeq(s, i, i) = c THEN i
    ELSE Find(s, c, i + 1)

RECURSIVE ParseHtml(_)
ParseHtml(s) ==
    IF Len(s) = 0 THEN << >>
    ELSE IF SubSeq(s, 1, 1) = "<"
    THEN LET gt == Find(s, ">", 1)
             tag == SubSeq(s, 2, gt - 1)
             lt == Find(s, "<", gt + 1)
             close == "</" \o tag \o ">"
             stop == lt + Len(close) - 1
         IN  IF gt = 0 \/ lt = 0 \/ SubSeq(s, lt, stop) # close
             THEN << [tag |-> "#text", text |-> s] >>
             ELSE << [tag |-> tag, text |-> SubSeq(s, gt + 1, lt - 1)] >>
                  \o ParseHtml(SubSeq(s, stop + 1, Len(s)))
    ELSE LET lt == Find(s, "<", 1)
         IN  IF lt = 0
             THEN << [tag |-> "#text", text |-> s] >>
             ELSE << [tag |-> "#text", text |-> SubSeq(s, 1, lt - 1)] >>
                  \o ParseHtml(SubSeq(s, lt, Len(s)))

inner_html_escaped == EscapeHtml(html)

inner_html == html

on_click_count(n) == n + CountStep

on_click_move_copied(n) == n + CountStep

on_click_move(n) == n + XStep

(***************************************************************************)
(* The bindings of the view, in the order the view declares them, the      *)
(* facet each one writes and the signal each reactive one reads.           *)
(***************************************************************************)
ViewBindings ==
    << "class_red", "label_click_me", "count_text",
       "label_double_count", "double_text",
       "progress_max", "progress_value",
       "inner_html",
       "style_attr", "style_left", "style_background_color",
       "style_max_width", "style_columns", "label_click_to_move" >>

Bindings == { ViewBindings[i] : i \in 1..Len(ViewBindings) }

Target(b) ==
    CASE b = "class_red" -> "button1.class"
      [] b = "label_click_me" -> "button1.label"
      [] b = "count_text" -> "button1.text"
      [] b = "label_double_count" -> "p.label"
      [] b = "double_text" -> "p.text"
      [] b = "progress_max" -> "progress.max"
      [] b = "progress_value" -> "progress.value"
      [] b = "inner_html" -> "div2.innerHTML"
      [] b = "style_attr" -> "button2.style.position"
      [] b = "style_left" -> "button2.style.left"
      [] b = "style_background_color" -> "button2.style.background-color"
      [] b = "style_max_width" -> "button2.style.max-width"
      [] b = "style_columns" -> "button2.style.--columns"
      [] b = "label_click_to_move" -> "button2.label"

Facets == { Target(b) : b \in Bindings }

ReadsCountOnce(b) ==
    CASE b \in {"class_red", "double_text", "progress_value"}
           -> "count"
      [] b \in {"style_left", "style_background_color", "style_columns"}
           -> "x"
      [] OTHER -> "none"

Reads(b) ==
    CASE b \in {"class_red", "count_text", "double_text", "progress_value"}
           -> "count"
      [] b \in {"style_left", "style_background_color", "style_columns"}
           -> "x"
      [] OTHER -> "none"

Signals == {"count", "x"}

(***************************************************************************)
(* What a binding renders from the current signal values s.                *)
(***************************************************************************)
Value(b, s) ==
    CASE b = "class_red" -> IF class_red(s["count"]) THEN "red" ELSE ""
      [] b = "label_click_me" -> "Click Me: "
      [] b = "count_text" -> count_text(s["count"])
      [] b = "label_double_count" -> "Double Count: "
      [] b = "double_text" -> double_text(s["count"])
      [] b = "progress_max" -> "50"
      [] b = "progress_value" -> progress_value(s["count"])
      [] b = "inner_html" -> inner_html
      [] b = "style_attr" -> "absolute"
      [] b = "style_left" -> style_left(s["x"])
      [] b = "style_background_color" -> style_background_color(s["x"])
      [] b = "style_max_width" -> "400px"
      [] b = "style_columns" -> columns(s["x"])
      [] b = "label_click_to_move" -> "Click to Move"

(***************************************************************************)
(* The handler of each button: the signal it writes and its update.        *)
(***************************************************************************)
Buttons == {"click_me", "click_to_move"}

WritesCountOnly(btn) == "count"

Writes(btn) == IF btn = "click_me" THEN "count" ELSE "x"

Apply(btn, n) == IF btn = "click_me" THEN on_click_count(n) ELSE on_click_move(n)

ClickCap(btn) == IF btn = "click_me" THEN MaxCountClicks ELSE MaxMoveClicks

(***************************************************************************)
(* State before main runs.                                                 *)
(***************************************************************************)
Init ==
    /\ pc = "start"
    /\ cur = "none"
    /\ idx = 0
    /\ queue = << >>
    /\ sig = [s \in Signals |-> 0]
    /\ dom = [f \in Facets |-> Absent]
    /\ subs = [s \in Signals |-> << >>]
    /\ writes = [f \in Facets |-> 0]
    /\ writers = [f \in Facets |-> {}]
    /\ issued = [b \in Buttons |-> 0]
    /\ handled = [b \in Buttons |-> 0]
    /\ pre = 0
    /\ notified = << >>

SubscribersOf(s) == SelectSeq(ViewBindings, LAMBDA b : Reads(b) = s)

InitialSignals == [s \in Signals |-> IF s = "count" THEN CountInit ELSE XInit]

(***************************************************************************)
(* main: mount_to_body(App) runs the component body once: the signals are  *)
(* created, every binding renders once, and each reactive binding          *)
(* subscribes to the signal it reads.                                      *)
(***************************************************************************)
Mount ==
    /\ pc = "start"
    /\ sig' = InitialSignals
    /\ dom' = [f \in Facets |->
                 LET b == CHOOSE c \in Bindings : Target(c) = f
                 IN  Value(b, InitialSignals)]
    /\ subs' = [s \in Signals |-> SubscribersOf(s)]
    /\ writes' = [f \in Facets |-> Cardinality({b \in Bindings : Target(b) = f})]
    /\ writers' = [f \in Facets |-> {b \in Bindings : Target(b) = f}]
    /\ pc' = "idle"
    /\ UNCHANGED <<cur, idx, queue, issued, handled, pre, notified>>

(***************************************************************************)
(* The user clicks a button: the browser queues the event.                 *)
(***************************************************************************)
UserClick(btn) ==
    /\ pc # "start"
    /\ Len(queue) < MaxQueue
    /\ issued[btn] < ClickCap(btn)
    /\ queue' = Append(queue, btn)
    /\ issued' = [issued EXCEPT ![btn] = @ + 1]
    /\ UNCHANGED <<pc, cur, idx, sig, dom, subs, writes, writers,
                   handled, pre, notified>>

(***************************************************************************)
(* The event loop takes the next queued event when no handler is running.  *)
(***************************************************************************)
Dispatch ==
    /\ pc = "idle"
    /\ queue # << >>
    /\ cur' = Head(queue)
    /\ queue' = Tail(queue)
    /\ pc' = "update"
    /\ UNCHANGED <<idx, sig, dom, subs, writes, writers,
                   issued, handled, pre, notified>>

(***************************************************************************)
(* The handler's update call stores the new value of its signal.           *)
(***************************************************************************)
Update ==
    /\ pc = "update"
    /\ pre' = sig[Writes(cur)]
    /\ sig' = [sig EXCEPT ![Writes(cur)] = Apply(cur, @)]
    /\ idx' = 1
    /\ notified' = << >>
    /\ pc' = "notify"
    /\ UNCHANGED <<cur, queue, dom, subs, writes, writers, issued, handled>>

(***************************************************************************)
(* The next subscriber of the written signal re-runs its closure and       *)
(* writes its facet.                                                       *)
(***************************************************************************)
Notify ==
    /\ pc = "notify"
    /\ idx <= Len(subs[Writes(cur)])
    /\ LET b == subs[Writes(cur)][idx]
       IN  /\ dom' = [dom EXCEPT ![Target(b)] = Value(b, sig)]
           /\ writes' = [writes EXCEPT ![Target(b)] = @ + 1]
           /\ writers' = [writers EXCEPT ![Target(b)] = @ \cup {b}]
           /\ notified' = Append(notified, b)
    /\ idx' = idx + 1
    /\ UNCHANGED <<pc, cur, queue, sig, subs, issued, handled, pre>>

(***************************************************************************)
(* All subscribers have run: the handler returns to the event loop.        *)
(***************************************************************************)
Return ==
    /\ pc = "notify"
    /\ idx > Len(subs[Writes(cur)])
    /\ handled' = [handled EXCEPT ![cur] = @ + 1]
    /\ cur' = "none"
    /\ idx' = 0
    /\ pc' = "idle"
    /\ UNCHANGED <<queue, sig, dom, subs, writes, writers, issued, pre, notified>>

Next ==
    \/ Mount
    \/ \E btn \in Buttons : UserClick(btn)
    \/ Dispatch
    \/ Update
    \/ Notify
    \/ Return

Spec == Init /\ [][Next]_vars

(***************************************************************************)
(* Shorthands for the properties below.                                    *)
(***************************************************************************)
Fresh(b) == dom[Target(b)] = Value(b, sig)

AllFresh == \A b \in Bindings : Fresh(b)

CountFacets == {"button1.class", "button1.text", "p.text", "progress.value"}

XFacets == {"button2.style.left", "button2.style.background-color",
            "button2.style.--columns"}

StaticFacets == Facets \ (CountFacets \cup XFacets)

(***************************************************************************)
(* C1: between events, after n handled clicks on 'Click Me' the button's   *)
(* bound text reads n and the 'Double Count' text reads 2*n; after 3       *)
(* clicks they read "3" and "6".                                           *)
(***************************************************************************)
C1_ClicksRender ==
    pc = "idle" =>
        /\ dom["button1.text"] = ToStr(handled["click_me"])
        /\ dom["p.text"] = ToStr(2 * handled["click_me"])
        /\ handled["click_me"] = 3 =>
               dom["button1.text"] = "3" /\ dom["p.text"] = "6"

C1_Witness ==
    /\ pc = "idle"
    /\ handled["click_me"] = 3
    /\ dom["button1.text"] = "3"
    /\ dom["p.text"] = "6"

(***************************************************************************)
(* C2: a handler runs to completion (signal write, every subscriber        *)
(* notified, every facet written) before the next queued event is          *)
(* dequeued, and at every dequeue point every facet equals its projection  *)
(* of the current signal values.                                           *)
(***************************************************************************)
C2_Dequeue == Len(queue') < Len(queue) => pc = "idle" /\ cur = "none" /\ AllFresh

C2_Completion ==
    (cur # "none" /\ cur' # cur) =>
        /\ cur' = "none"
        /\ sig[Writes(cur)] = Apply(cur, pre)
        /\ notified = subs[Writes(cur)]
        /\ AllFresh'

C2_RunToCompletion ==
    /\ [](pc = "idle" => AllFresh)
    /\ [][C2_Dequeue /\ C2_Completion]_vars

C2_Witness ==
    /\ pc = "idle"
    /\ queue # << >>
    /\ handled["click_me"] >= 1
    /\ handled["click_to_move"] >= 1
    /\ AllFresh

(***************************************************************************)
(* C3: between events the class `red` is on the 'Click Me' button exactly  *)
(* when count is odd: absent at 0, present at 1, absent at 2, present at 3.*)
(***************************************************************************)
C3_RedIffOdd ==
    pc = "idle" =>
        /\ (dom["button1.class"] = "red") <=> (sig["count"] % 2 = 1)
        /\ dom["button1.class"] \in {"", "red"}
        /\ sig["count"] \in {0, 2} => dom["button1.class"] = ""
        /\ sig["count"] \in {1, 3} => dom["button1.class"] = "red"

C3_Witness ==
    /\ pc = "idle"
    /\ sig["count"] = 3
    /\ dom["button1.class"] = "red"

C7_Step ==
    pc # "start" =>
        /\ cur # "click_me" =>
               /\ sig'["count"] = sig["count"]
               /\ \A f \in CountFacets : dom'[f] = dom[f]
        /\ cur # "click_to_move" =>
               /\ sig'["x"] = sig["x"]
               /\ \A f \in XFacets : dom'[f] = dom[f]
        /\ \A f \in StaticFacets : dom'[f] = dom[f]

C7_Targeted == [][C7_Step]_vars

C7_Witness ==
    /\ pc = "idle"
    /\ handled["click_me"] >= 1
    /\ handled["click_to_move"] >= 1
    /\ sig["count"] = handled["click_me"]
    /\ sig["x"] = 10 * handled["click_to_move"]

(***************************************************************************)
(* C8: once mounted, the raw-HTML div holds the static string verbatim     *)
(* (unescaped), which parses to one paragraph child with the string's      *)
(* text; it was written once, at mount, and no click changes it.           *)
(***************************************************************************)
C8_RawHtml ==
    pc # "start" =>
        /\ dom["div2.innerHTML"] = "<p>This HTML will be injected.</p>"
        /\ ParseHtml(dom["div2.innerHTML"]) =
               << [tag |-> "p", text |-> "This HTML will be injected."] >>
        /\ writes["div2.innerHTML"] = 1

C8_Witness ==
    /\ pc = "idle"
    /\ handled["click_me"] >= 2
    /\ handled["click_to_move"] >= 2
    /\ dom["div2.innerHTML"] = "<p>This HTML will be injected.</p>"
    /\ writes["div2.innerHTML"] = 1

(***************************************************************************)
(* C9: between events, after k handled clicks on 'Click to Move', x is     *)
(* 10*k, style left is "<x+100>px", background-color is                    *)
(* "rgb(<x>, 100, 100)" and --columns is x; each of the three facets is    *)
(* written by exactly one binding.                                         *)
(***************************************************************************)
C9_MoveFacets ==
    /\ pc = "idle" =>
        /\ sig["x"] = 10 * handled["click_to_move"]
        /\ dom["button2.style.left"] = ToStr(sig["x"] + 100) \o "px"
        /\ dom["button2.style.background-color"] =
               "rgb(" \o ToStr(sig["x"]) \o ", 100, 100)"
        /\ dom["button2.style.--columns"] = ToStr(sig["x"])
    /\ pc # "start" => \A f \in XFacets : Cardinality(writers[f]) = 1

C9_Witness ==
    /\ pc = "idle"
    /\ handled["click_to_move"] = 2
    /\ dom["button2.style.left"] = "120px"
    /\ dom["button2.style.background-color"] = "rgb(20, 100, 100)"
    /\ dom["button2.style.--columns"] = "20"
    /\ \A f \in XFacets : writes[f] = 3

(***************************************************************************)
(* C10: within one 'Click Me' handler the subscribers of count run only    *)
(* after the increment is stored and in subscription order, every binding  *)
(* that has run shows the post-increment value, whether it reads count     *)
(* directly or through double_count, and running them never changes a      *)
(* signal.                                                                 *)
(***************************************************************************)
C10_Rendered(b, c) ==
    CASE b = "class_red" -> dom["button1.class"] = IF c % 2 = 1 THEN "red" ELSE ""
      [] b = "count_text" -> dom["button1.text"] = ToStr(c)
      [] b = "double_text" -> dom["p.text"] = ToStr(2 * c)
      [] b = "progress_value" -> dom["progress.value"] = ToStr(2 * c)
      [] OTHER -> FALSE

C10_CountOrder == << "class_red", "count_text", "double_text", "progress_value" >>

C10_Notifying ==
    (pc = "notify" /\ cur = "click_me") =>
        /\ sig["count"] = pre + 1
        /\ Len(notified) <= Len(C10_CountOrder)
        /\ notified = SubSeq(C10_CountOrder, 1, Len(notified))
        /\ \A i \in 1..Len(notified) : C10_Rendered(notified[i], pre + 1)

C10_NoTornReads ==
    /\ []C10_Notifying
    /\ [][pc = "notify" => sig' = sig]_vars

C10_Witness ==
    /\ pc = "notify"
    /\ cur = "click_me"
    /\ pre = 1
    /\ sig["count"] = 2
    /\ notified = C10_CountOrder
    /\ dom["button1.text"] = "2"
    /\ dom["progress.value"] = "4"

====
